---------------------------- MODULE Spec2Model ----------------------------
(***************************************************************************)
(* A model of the two leap-year benchmarking scripts,                      *)
(*   src/Leap_benchmarking.py   (script "I",  timeit.timeit with a setup   *)
(*                               string, one cell written at a time), and  *)
(*   src/Leap_Benchmark_II.py   (script "II", timeit.repeat on a lambda,   *)
(*                               one row written at a time).               *)
(* The harness part of both scripts (everything before the chart styling)  *)
(* is modelled: the result DataFrame, the four candidate predicates, the   *)
(* timing loop with the code template of timeit.Timer, and the assignment  *)
(* of the measured values through df.loc.                                  *)
(*                                                                         *)
(* Durations are exact rationals of a second, [num |-> n, den |-> d]; the  *)
(* model's timer counts ticks of 1/5000 s.  NaN is the rational 0/0.       *)
(* Every value carries in field m the number of the measurement (the       *)
(* Timer object) that produced it; m, log, writes and defsRun are history  *)
(* variables: the scripts never read them.                                 *)
(***************************************************************************)
EXTENDS Integers, Sequences, FiniteSets

VARIABLES
    script,      \* which script runs: "I" or "II"
    pc,          \* position of the module-level code
    input_data,  \* the four years passed to the predicates
    df,          \* the DataFrame: [index, columns, data]
    i,           \* number of items the for loop has taken from its iterable
    j,           \* I: the block of the loop body; II: position in input_data
    val,         \* I: the float of the current block; II: the list of a row
    ns,          \* the function the timed statement calls
    ip,          \* position in the body of timeit's inner()
    it,          \* iterations left in inner()'s loop
    clock,       \* time.perf_counter(), in ticks
    t0,          \* inner()'s _t0
    timing,      \* TRUE between the reading of _t0 and of _t1
    r,           \* Timer.repeat's list of timings
    comp,        \* II: the list the comprehension is building
    ret,         \* outcome of the last call of a predicate
    stdout,      \* what the script has printed / rendered
    rate,        \* ticks a call takes in the current timed run
    slow,        \* number of noisy measurements so far (bounded timer noise)
    log,         \* history: one record per measurement (Timer)
    writes,      \* history: how often df.loc assigned each cell
    defsRun,     \* history: executions of the module-level function defs
    py,          \* SpecPure: the year the predicates are applied to
    pret         \* SpecPure: the outcome of each predicate on py

vars == <<script, pc, input_data, df, i, j, val, ns, ip, it, clock, t0,
          timing, r, comp, ret, stdout, rate, slow, log, writes, defsRun, py, pret>>

harnessVars == <<script, pc, input_data, df, i, j, val, ns, ip, it, clock, t0,
                 timing, r, comp, ret, stdout, rate, slow, log, writes, defsRun>>

-----------------------------------------------------------------------------
(* Bounds of the model.                                                    *)

\* stands for loops = 1_000_000 of script I (the number of timed calls)
loops == 2
\* stands for timeit.default_number = 1_000_000, used by script II
default_number == 2
\* stands for timeit.default_repeat = 5, used by script II
default_repeat == 2
\* the calls of a timed run take one tick each, or two each when the run is
\* slowed down; at most this many measurements of a script run have such runs
MaxNoisy == 1
\* SpecPure applies the predicates to the years -YearBound .. YearBound
YearBound == 400

-----------------------------------------------------------------------------
(* Python's truth value of an int, and the two arithmetic predicates.      *)

Not(n) == n = 0

leap_if_statements(year) ==
    (year % 4 = 0) /\ ((year % 100 # 0) \/ (year % 400 = 0))

\* a plausible slip: the two branches of the conditional expression swapped
leap_ternary_swapped(year) ==
    IF Not(year % 100) THEN Not(year % 4) ELSE Not(year % 400)

leap_ternary(year) ==
    IF Not(year % 100) THEN Not(year % 400) ELSE Not(year % 4)

(* calendar.isleap *)
isleap(year) ==
    (year % 4 = 0) /\ ((year % 100 # 0) \/ (year % 400 = 0))

leap_calendar(year) == isleap(year)

(* datetime(year, 2, 28) + timedelta(days=1), as CPython computes it: the  *)
(* constructor checks the year, the addition adds the days to the day      *)
(* field and normalises the date.                                          *)
MINYEAR == 1
MAXYEAR == 9999

is_leap(year) ==
    (year % 4 = 0) /\ ((year % 100 # 0) \/ (year % 400 = 0))

days_in_month(year, month) ==
    IF month = 2 /\ is_leap(year) THEN 29
    ELSE <<31, 28, 31, 30, 31, 30, 31, 31, 30, 31, 30, 31>>[month]

\* normalize_y_m_d for a day at most one past the end of its month
normalize_date(y, m, d) ==
    LET dim == days_in_month(y, m) IN
    IF d <= dim THEN [year |-> y, month |-> m, day |-> d]
    ELSE IF m + 1 > 12 THEN [year |-> y + 1, month |-> 1, day |-> d - dim]
    ELSE [year |-> y, month |-> m + 1, day |-> d - dim]

datetime_valid(year) == MINYEAR <= year /\ year <= MAXYEAR

\* a plausible slip: the day after Feb 28 compared with 28
leap_datetime_28(year) == normalize_date(year, 2, 28 + 1).day = 28

leap_datetime(year) == normalize_date(year, 2, 28 + 1).day = 29

(* The outcome of calling the function named f on year.                    *)
Returned(b) == [exc |-> "", value |-> b]
Raised(e)   == [exc |-> e, value |-> FALSE]
NoCall      == [exc |-> "no call", value |-> FALSE]

Call(f, year) ==
    CASE f = "leap_if_statements" -> Returned(leap_if_statements(year))
      [] f = "leap_ternary"       -> Returned(leap_ternary(year))
      [] f = "leap_datetime"      ->
            IF datetime_valid(year) THEN Returned(leap_datetime(year))
            ELSE Raised("ValueError")
      [] f = "leap_calendar"      -> Returned(leap_calendar(year))
      [] OTHER                    -> Raised("NameError")

-----------------------------------------------------------------------------
(* Floats: exact rationals of a second, tagged with their measurement.     *)

NaN == [num |-> 0, den |-> 0, m |-> 0]
IsNaN(v) == v.den = 0

\* the timer's difference _t1 - _t0 of two readings, a number of seconds
Seconds(ticks, m) == [num |-> ticks, den |-> 5000, m |-> m]

\* v / n
Div(v, n) == [num |-> v.num, den |-> v.den * n, m |-> v.m]

Less(a, b) == a.num * b.den < b.num * a.den

\* min(s) of a non-empty list: the first of its smallest items
RECURSIVE Min(_)
Min(s) ==
    IF Len(s) = 1 THEN s[1]
    ELSE LET rest == Min(Tail(s)) IN
         IF Less(rest, s[1]) THEN rest ELSE s[1]

\* round(v, 3): the nearest multiple of 1/1000 (half to even)
Round3(v) ==
    LET q  == (v.num * 1000) \div v.den
        rm == (v.num * 1000) % v.den
        up == (2 * rm > v.den) \/ (2 * rm = v.den /\ q % 2 = 1)
    IN [num |-> IF up THEN q + 1 ELSE q, den |-> 1000, m |-> v.m]

-----------------------------------------------------------------------------
(* The DataFrame and df.loc.                                               *)

\* a plausible slip: a fifth input announced in the header and never timed
col_headers_extra == <<"1900", "2000", "2019", "2020", "2024">>

row_headers == <<"if-statements", "ternary", "datetime-add", "calendar-isleap">>
col_headers == <<"1900", "2000", "2019", "2020">>

Range(s) == {s[k] : k \in DOMAIN s}

\* pd.DataFrame(fill, index=index, columns=columns)
DataFrame(fill, index, columns) ==
    [index   |-> index,
     columns |-> columns,
     data    |-> [c \in Range(index) \X Range(columns) |-> fill]]

\* df.loc[row, col] = v; a label the frame lacks enlarges the frame
LocSet(d, row, col, v) ==
    LET index   == IF row \in Range(d.index) THEN d.index
                   ELSE Append(d.index, row)
        columns == IF col \in Range(d.columns) THEN d.columns
                   ELSE Append(d.columns, col)
    IN [index   |-> index,
        columns |-> columns,
        data    |-> [c \in Range(index) \X Range(columns) |->
                        IF c = <<row, col>> THEN v
                        ELSE IF c \in DOMAIN d.data THEN d.data[c]
                        ELSE NaN]]

Position(s, x) == CHOOSE k \in DOMAIN s : s[k] = x

\* the labels a label slice first:last selects: both ends are included
LabelSlice(columns, first, last) ==
    SubSeq(columns, Position(columns, first), Position(columns, last))

RECURSIVE LocSetMany(_, _, _, _)
LocSetMany(d, row, cols, vs) ==
    IF cols = <<>> THEN d
    ELSE LocSetMany(LocSet(d, row, Head(cols), Head(vs)), row, Tail(cols), Tail(vs))

\* df.loc[row, first:last] = vs needs as many values as the slice has labels
SliceFits(d, first, last, vs) ==
    /\ first \in Range(d.columns)
    /\ last \in Range(d.columns)
    /\ Len(LabelSlice(d.columns, first, last)) = Len(vs)

LocSetSlice(d, row, first, last, vs) ==
    LocSetMany(d, row, LabelSlice(d.columns, first, last), vs)

-----------------------------------------------------------------------------
(* The scripts' data.                                                      *)

\* a plausible slip: the list in another order than row_headers
functions_swapped == <<"leap_ternary", "leap_if_statements", "leap_datetime", "leap_calendar">>

\* II: functions; the strings name the function objects
functions == <<"leap_if_statements", "leap_ternary", "leap_datetime", "leap_calendar">>

\* I: setups[descriptor], named by the function its string defines as leap_year
setups ==
    [d \in {"if-statements", "ternary", "datetime-add", "calendar-isleap"} |->
        CASE d = "if-statements"   -> "leap_if_statements"
          [] d = "ternary"         -> "leap_ternary"
          [] d = "datetime-add"    -> "leap_datetime"
          [] d = "calendar-isleap" -> "leap_calendar"]

\* II: input_data; I: the literals of the four timed statements
years_under_test == <<1900, 2000, 2019, 2020>>

\* plausible slips of the copied blocks: a label mistyped, a label not updated
block_year_typo == <<"1900", "2000", "2019", "2021">>
block_year_dup == <<"1900", "2000", "2019", "2019">>

\* I: the value of year in the four blocks of the loop body
block_year == <<"1900", "2000", "2019", "2020">>

\* II: the ends of the label slice df.loc[title, '1900':'2020']
slice_first == "1900"
slice_last == "2020"

\* zip(a, b)
Zip(a, b) ==
    [k \in 1 .. (IF Len(a) < Len(b) THEN Len(a) ELSE Len(b)) |-> <<a[k], b[k]>>]

\* a plausible slip: the candidates taken in reverse
Iterable_reversed ==
    LET Rev(q) == [k \in 1 .. Len(q) |-> q[Len(q) + 1 - k]] IN
    IF script = "I" THEN Rev(row_headers) ELSE Rev(Zip(functions, row_headers))

\* what the for loop iterates over
Iterable == IF script = "I" THEN row_headers ELSE Zip(functions, row_headers)

\* the row label of the current iteration: descriptor (I), title (II)
RowLabel == IF script = "I" THEN Iterable[i] ELSE Iterable[i][2]

\* II: func of the current iteration
func == Iterable[i][1]

\* a plausible slip: the setup placed after the first reading of the timer
template_setup_timed == <<"t0", "setup", "loop", "t1">>

\* the body of timeit's inner(): the setup, _t0, the loop over stmt, _t1
template == <<"setup", "t0", "loop", "t1">>

\* number of the Timer.timeit call
number == IF script = "I" THEN loops ELSE default_number

\* the function the timed statement calls, and its argument
Callee == IF script = "I" THEN ns ELSE func
Arg == input_data[j]

\* a plausible slip: the division by loops forgotten
TimeitValue_total(elapsed) == elapsed

\* I: timeit.timeit(stmt, setup, number=loops) / loops
TimeitValue(elapsed) == Div(elapsed, loops)

\* II: round(min(timeit.repeat(...)), 3)
RepeatValue(timings) == Round3(Min(timings))

-----------------------------------------------------------------------------
(* History records.                                                        *)

NewMeasurement ==
    [func |-> "", year |-> 0, ret |-> NoCall, calls |-> 0, setups |-> 0, setupTimed |-> FALSE,
     runs |-> 0, cur |-> 0, minSum |-> 0, minCall |-> 0, noisy |-> FALSE,
     finished |-> FALSE]

Bump(w, c) ==
    [x \in DOMAIN w \cup {c} |->
        IF x = c THEN (IF c \in DOMAIN w THEN w[c] + 1 ELSE 1) ELSE w[x]]

RECURSIVE BumpAll(_, _, _)
BumpAll(w, row, cols) ==
    IF cols = <<>> THEN w ELSE BumpAll(Bump(w, <<row, Head(cols)>>), row, Tail(cols))

M == Len(log)

-----------------------------------------------------------------------------
(* The initial state: the frame of NaN has been built (line 21).           *)

InitHarness(inputs) ==
    /\ script \in {"I", "II"}
    /\ pc = "defs"
    /\ input_data \in inputs
    /\ df = DataFrame(NaN, row_headers, col_headers)
    /\ i = 0
    /\ j = 0
    /\ val = IF script = "I" THEN NaN ELSE <<>>
    /\ ns = ""
    /\ ip = 0
    /\ it = 0
    /\ clock = 0
    /\ t0 = 0
    /\ timing = FALSE
    /\ r = <<>>
    /\ comp = <<>>
    /\ ret = NoCall
    /\ stdout = <<>>
    /\ rate = 1
    /\ slow = 0
    /\ log = <<>>
    /\ writes = [c \in Range(row_headers) \X Range(col_headers) |-> 0]
    /\ defsRun = 0

Init ==
    /\ InitHarness({years_under_test})
    /\ py = 0
    /\ pret = [f \in Range(functions) |-> NoCall]

-----------------------------------------------------------------------------
(* The module-level code.                                                  *)

\* I lines 23-47: the setup strings are stored, nothing is executed.
\* II lines 25-44: the four functions are defined, once.
Defs ==
    /\ pc = "defs"
    /\ defsRun' = IF script = "II" THEN defsRun + 1 ELSE defsRun
    /\ pc' = "for"
    /\ UNCHANGED <<script, input_data, df, i, j, val, ns, ip, it, clock, t0,
                   timing, r, comp, ret, stdout, rate, slow, log, writes, py, pret>>

\* a plausible slip: the loop body wrapped in try/except, so that the loop
\* goes on with the next candidate after a failure
ForNext_resume ==
    /\ pc \in {"for", "aborted"}
    /\ IF i < Len(Iterable)
       THEN /\ i' = i + 1
            /\ j' = 1
            /\ comp' = <<>>
            /\ pc' = "timer"
       ELSE /\ pc' = "plot"
            /\ UNCHANGED <<i, j, comp>>
    /\ UNCHANGED <<script, input_data, df, val, ns, ip, it, clock, t0, timing,
                   r, ret, stdout, rate, slow, log, writes, defsRun, py, pret>>

\* the for statement takes the next item, or the loop ends
ForNext ==
    /\ pc = "for"
    /\ IF i < Len(Iterable)
       THEN /\ i' = i + 1
            /\ j' = 1
            /\ comp' = <<>>
            /\ pc' = "timer"
       ELSE /\ pc' = "plot"
            /\ UNCHANGED <<i, j, comp>>
    /\ UNCHANGED <<script, input_data, df, val, ns, ip, it, clock, t0, timing,
                   r, ret, stdout, rate, slow, log, writes, defsRun, py, pret>>

\* timeit.timeit / timeit.repeat build a Timer and enter its first run
NewTimer ==
    /\ pc = "timer"
    /\ log' = Append(log, NewMeasurement)
    /\ ns' = ""
    /\ r' = <<>>
    /\ ip' = 1
    /\ it' = number
    /\ pc' = "inner"
    /\ UNCHANGED <<script, input_data, df, i, j, val, clock, t0, timing, comp,
                   ret, stdout, rate, slow, writes, defsRun, py, pret>>

\* inner(): {setup}.  I: the setup string defines leap_year; II: pass
InnerSetup ==
    /\ pc = "inner"
    /\ template[ip] = "setup"
    /\ ns' = IF script = "I" THEN setups[RowLabel] ELSE ns
    /\ log' = [log EXCEPT ![M].setups = @ + 1,
                          ![M].setupTimed = @ \/ timing]
    /\ ip' = ip + 1
    /\ UNCHANGED <<script, pc, input_data, df, i, j, val, it, clock, t0, timing,
                   r, comp, ret, stdout, rate, slow, writes, defsRun, py, pret>>

\* inner(): _t0 = _timer().  The machine runs the timed run that begins
\* here at full speed or slowed down.
InnerT0 ==
    /\ pc = "inner"
    /\ template[ip] = "t0"
    /\ t0' = clock
    /\ timing' = TRUE
    /\ ip' = ip + 1
    /\ \E d \in {1} \cup (IF log[M].noisy \/ slow < MaxNoisy THEN {2} ELSE {}) :
          /\ rate' = d
          /\ slow' = IF d = 2 /\ ~ log[M].noisy THEN slow + 1 ELSE slow
          /\ log' = [log EXCEPT ![M].noisy = @ \/ d = 2]
    /\ UNCHANGED <<script, pc, input_data, df, i, j, val, ns, it, clock, r, comp,
                   ret, stdout, writes, defsRun, py, pret>>

\* inner(): one pass of the loop, {stmt}: leap_year(<year>) (I), _stmt() that
\* calls func(data) (II).  An exception leaves inner(), the timing loop and
\* the script.
InnerStmt ==
    /\ pc = "inner"
    /\ template[ip] = "loop"
    /\ it > 0
    /\ LET out == Call(Callee, Arg) IN
       /\ ret' = out
       /\ IF out.exc # ""
          THEN /\ pc' = "aborted"
               /\ log' = [log EXCEPT ![M].func = Callee, ![M].year = Arg,
                                     ![M].ret = out, ![M].calls = @ + 1]
               /\ UNCHANGED <<it, ip, clock>>
          ELSE /\ clock' = clock + rate
               /\ it' = it - 1
               /\ ip' = IF it = 1 THEN ip + 1 ELSE ip
               /\ log' = [log EXCEPT
                            ![M].func = Callee, ![M].year = Arg,
                            ![M].ret = out, ![M].calls = @ + 1,
                            ![M].cur = @ + rate,
                            ![M].minCall = IF @ = 0 \/ rate < @ THEN rate ELSE @]
               /\ pc' = pc
    /\ UNCHANGED <<script, input_data, df, i, j, val, ns, t0, timing, r, comp,
                   stdout, rate, slow, writes, defsRun, py, pret>>

\* inner(): _t1 = _timer(); return _t1 - _t0, and what the caller does with
\* the timing.  I: val = timing / loops.  II: repeat() appends it and runs
\* inner() again; after the last run the comprehension appends
\* round(min(...), 3) and goes on to the next item of input_data.
InnerT1 ==
    /\ pc = "inner"
    /\ template[ip] = "t1"
    /\ timing' = FALSE
    /\ LET elapsed == Seconds(clock - t0, M)
           done    == [log EXCEPT
                         ![M].runs = @ + 1,
                         ![M].minSum = IF log[M].runs = 0 \/ log[M].cur < @
                                       THEN log[M].cur ELSE @,
                         ![M].cur = 0]
       IN
       IF script = "I"
       THEN /\ val' = TimeitValue(elapsed)
            /\ log' = [done EXCEPT ![M].finished = TRUE]
            /\ pc' = "assign"
            /\ UNCHANGED <<r, comp, j, ip, it>>
       ELSE IF Len(r) + 1 < default_repeat
       THEN /\ r' = Append(r, elapsed)
            /\ log' = done
            /\ ip' = 1
            /\ it' = number
            /\ UNCHANGED <<val, comp, j, pc>>
       ELSE /\ r' = Append(r, elapsed)
            /\ comp' = Append(comp, RepeatValue(r'))
            /\ log' = [done EXCEPT ![M].finished = TRUE]
            /\ j' = j + 1
            /\ IF j + 1 > Len(input_data)
               THEN val' = comp' /\ pc' = "assign"
               ELSE val' = val /\ pc' = "timer"
            /\ UNCHANGED <<ip, it>>
    /\ UNCHANGED <<script, input_data, df, i, ns, clock, t0, ret, stdout, rate, slow,
                   writes, defsRun, py, pret>>

\* I: year = '<year>'; print(...); df.loc[descriptor, year] = val, then the
\* next block of the loop body or the next iteration
Assign ==
    /\ pc = "assign"
    /\ script = "I"
    /\ stdout' = Append(stdout, RowLabel)
    /\ df' = LocSet(df, RowLabel, block_year[j], val)
    /\ writes' = Bump(writes, <<RowLabel, block_year[j]>>)
    /\ j' = j + 1
    /\ pc' = IF j + 1 > Len(block_year) THEN "for" ELSE "timer"
    /\ UNCHANGED <<script, input_data, i, val, ns, ip, it, clock, t0, timing, r,
                   comp, ret, rate, slow, log, defsRun, py, pret>>

\* II: print(...); df.loc[title, '1900':'2020'] = val
AssignRow ==
    /\ pc = "assign"
    /\ script = "II"
    /\ stdout' = Append(stdout, RowLabel)
    /\ IF SliceFits(df, slice_first, slice_last, val)
       THEN /\ df' = LocSetSlice(df, RowLabel, slice_first, slice_last, val)
            /\ writes' = BumpAll(writes, RowLabel,
                                 LabelSlice(df.columns, slice_first, slice_last))
            /\ pc' = "for"
       ELSE /\ pc' = "aborted"
            /\ UNCHANGED <<df, writes>>
    /\ UNCHANGED <<script, input_data, i, j, val, ns, ip, it, clock, t0, timing,
                   r, comp, ret, rate, slow, log, defsRun, py, pret>>

\* everything after the timing loop: the chart and the Markdown table
Plot ==
    /\ pc = "plot"
    /\ stdout' = Append(stdout, "Dataframe in Markdown format:")
    /\ pc' = "done"
    /\ UNCHANGED <<script, input_data, df, i, j, val, ns, ip, it, clock, t0,
                   timing, r, comp, ret, rate, slow, log, writes, defsRun, py, pret>>

Next ==
    \/ Defs
    \/ ForNext
    \/ NewTimer
    \/ InnerSetup
    \/ InnerT0
    \/ InnerStmt
    \/ InnerT1
    \/ Assign
    \/ AssignRow
    \/ Plot

Spec == Init /\ [][Next]_vars

-----------------------------------------------------------------------------
(* The harness run on other inputs: the four years with at most one of     *)
(* them replaced by a year datetime() rejects.                             *)

FaultYears == {0, 10000}

FaultInputs ==
    {years_under_test} \cup
    {[years_under_test EXCEPT ![k] = y] : k \in DOMAIN years_under_test, y \in FaultYears}

InitFault ==
    /\ InitHarness(FaultInputs)
    /\ py = 0
    /\ pret = [f \in Range(functions) |-> NoCall]

SpecFault == InitFault /\ [][Next]_vars

-----------------------------------------------------------------------------
(* The predicates alone, applied to every year of a range.                 *)

InitPure ==
    /\ InitHarness({years_under_test})
    /\ script = "II"
    /\ py \in (0 - YearBound) .. YearBound
    /\ pret = [f \in Range(functions) |-> NoCall]

PureCall ==
    /\ \E f \in Range(functions) :
          /\ pret[f] = NoCall
          /\ pret' = [pret EXCEPT ![f] = Call(f, py)]
    /\ UNCHANGED <<harnessVars, py>>

SpecPure == InitPure /\ [][PureCall]_vars

-----------------------------------------------------------------------------
(* What the properties speak of.                                           *)

CandidateOrder == <<"if-statements", "ternary", "datetime-add", "calendar-isleap">>
YearOrder == <<"1900", "2000", "2019", "2020">>

\* the predicate a row label names, the year a column label names
PredicateNamed(label) ==
    CASE label = "if-statements"   -> "leap_if_statements"
      [] label = "ternary"         -> "leap_ternary"
      [] label = "datetime-add"    -> "leap_datetime"
      [] label = "calendar-isleap" -> "leap_calendar"
      [] OTHER                     -> "?"

YearNamed(label) ==
    CASE label = "1900" -> 1900
      [] label = "2000" -> 2000
      [] label = "2019" -> 2019
      [] label = "2020" -> 2020
      [] OTHER          -> 0 - 1

Expected(year) ==
    CASE year = 1900 -> FALSE
      [] year = 2000 -> TRUE
      [] year = 2019 -> FALSE
      [] year = 2020 -> TRUE

\* divisible by 4 and not a century that 400 does not divide
Gregorian(year) ==
    /\ \E q \in (0 - YearBound) .. YearBound : year = 4 * q
    /\ ~ (/\ \E q \in (0 - YearBound) .. YearBound : year = 100 * q
          /\ ~ \E q \in (0 - YearBound) .. YearBound : year = 400 * q)

Cells == Range(df.index) \X Range(df.columns)
TableCells == Range(CandidateOrder) \X Range(YearOrder)
Populated(c) == ~ IsNaN(df.data[c])

\* place of a cell of the table in row-major order, 1 .. 16
Ord(c) ==
    (Position(CandidateOrder, c[1]) - 1) * Len(YearOrder) + Position(YearOrder, c[2])

LoopDone == pc \in {"plot", "done"}

Eq(a, b) == a.num * b.den = b.num * a.den

\* the cell of the pair under measurement
CurrentCell == <<CandidateOrder[i], YearOrder[j]>>

-----------------------------------------------------------------------------
\* C1: on each of 1900, 2000, 2019 and 2020 every candidate predicate, in
\* both scripts, returns the expected boolean (False, True, False, True),
\* so that all four agree: every call the timing loop has made of a
\* predicate returned Expected of its argument.
C1_PredicatesAgreeOnTestedYears ==
    \A k \in 1 .. Len(log) :
        /\ log[k].finished => log[k].calls > 0
        /\ log[k].calls > 0 =>
              /\ log[k].func \in Range(functions)
              /\ log[k].year \in Range(years_under_test)
              /\ log[k].ret = Returned(Expected(log[k].year))
              /\ k = M => ret = log[k].ret

\* all sixteen pairs have been called, the last one the calendar predicate
C1_Witness ==
    /\ pc = "done"
    /\ {<<log[k].func, log[k].year>> : k \in 1 .. Len(log)}
          = Range(functions) \X Range(years_under_test)
    /\ \A k \in 1 .. Len(log) : log[k].calls > 0
    /\ ret = Returned(TRUE)

\* C2: when the timing loop has finished without an exception, each of the
\* sixteen cells of the table holds a measurement, none the NaN it started as.
C2_AllCellsPopulated ==
    LoopDone =>
        /\ Cardinality(Cells) = 16
        /\ \A c \in Cells : Populated(c)

C2_Witness ==
    /\ pc = "plot"
    /\ \A c \in Cells : Populated(c)

\* C3 as claimed: the value of every populated cell is a per-call duration,
\* the shortest single call of its measurement or the time of a timed run
\* divided by the number of its calls (in script II possibly rounded to
\* three decimals).
C3_RecordedPerCall ==
    \A c \in Cells : Populated(c) =>
        LET v == df.data[c]
            e == log[v.m]
            shortest == Seconds(e.minCall, 0)
            average  == Div(Seconds(e.minSum, 0), number)
        IN \/ Eq(v, shortest)
           \/ Eq(v, average)
           \/ script = "II" /\ (Eq(v, Round3(shortest)) \/ Eq(v, Round3(average)))

\* C3 amended: script I calls the predicate loops times in one timed run and
\* records the time of the run divided by loops; script II calls it in
\* default_repeat timed runs of default_number calls each and records the
\* shortest run's time, to the nearest 1/1000 s and not divided by the
\* number of calls.
C3_RecordedValue ==
    \A c \in Cells : Populated(c) =>
        LET v == df.data[c]
            e == log[v.m]
        IN IF script = "I"
           THEN /\ e.runs = 1
                /\ e.calls = loops
                /\ Eq(v, Div(Seconds(e.minSum, 0), loops))
           ELSE /\ e.runs = default_repeat
                /\ e.calls = default_repeat * default_number
                /\ v.den = 1000
                /\ 2 * (v.num * 5000 - e.minSum * 1000) <= 5000
                /\ 2 * (e.minSum * 1000 - v.num * 5000) <= 5000

\* script II has recorded a value that is the rounded time of a whole run
C3_Witness ==
    /\ script = "II"
    /\ pc = "done"
    /\ \E c \in Cells : Populated(c) /\ df.data[c].num > 0
    /\ \E c \in Cells : Populated(c) /\ df.data[c].num = 0

\* script I has recorded an average over its calls
C3_WitnessAverage ==
    /\ script = "I"
    /\ pc = "done"
    /\ \E c \in Cells : Populated(c) /\ log[df.data[c].m].minSum = loops + 1

\* C4: the setup of a candidate runs outside the timed region.  Script I:
\* each timeit call runs the setup string once, before _t0 is read, and the
\* setup never runs between _t0 and _t1.  Script II: the function
\* definitions run once, at module level, before the first measurement, and
\* the setup of its timers defines nothing.  Between _t0 and _t1 only the
\* timed statement runs.
C4_SetupOutsideTimedRegion ==
    /\ \A k \in 1 .. Len(log) :
          /\ ~ log[k].setupTimed
          /\ log[k].calls > 0 => log[k].setups >= 1
          /\ log[k].finished => log[k].setups = log[k].runs
          /\ (script = "I" /\ log[k].finished) => log[k].setups = 1
    /\ timing => (pc \in {"inner", "aborted"} /\ template[ip] \in {"loop", "t1"})
    /\ script = "II" => (defsRun <= 1 /\ (log # <<>> => defsRun = 1) /\ ns = "")
    /\ script = "I" => defsRun = 0

\* a timed region of script I is open, its setup done
C4_Witness ==
    /\ script = "I"
    /\ timing
    /\ log[M].setups = 1
    /\ log[M].calls = 1
    /\ ns = "leap_datetime"


\* C5: when a predicate raises, the run stops there: no value is recorded
\* for the failing pair, no later cell is written or has been written, no
\* later measurement is started, the chart and Markdown stage is not
\* reached, and no step follows the failure.
C5_FailureAbortsRun ==
    /\ [](pc = "aborted" =>
            /\ ret.exc # ""
            /\ ~ Populated(CurrentCell)
            /\ \A c \in TableCells :
                  Ord(c) >= Ord(CurrentCell) => (~ Populated(c) /\ writes[c] = 0)
            /\ Len(log) = Ord(CurrentCell)
            /\ ~ log[M].finished
            /\ "Dataframe in Markdown format:" \notin Range(stdout))
    /\ [][pc # "aborted"]_vars

\* script I has failed in the datetime row after writing a cell of that row
C5_Witness ==
    /\ pc = "aborted"
    /\ script = "I"
    /\ ret = Raised("ValueError")
    /\ Populated(<<"datetime-add", "1900">>)
    /\ ~ Populated(<<"datetime-add", "2000">>)

\* C6: whatever durations are measured, the table keeps its shape and its
\* order: the rows are the four candidates and the columns the four years,
\* in the order of the headers; no write adds, removes or moves one.
C6_ShapeAndOrderFixed ==
    /\ df.index = CandidateOrder
    /\ df.columns = YearOrder
    /\ DOMAIN df.data = TableCells

\* a finished table that holds two different durations
C6_Witness ==
    /\ pc = "done"
    /\ \E a, b \in Cells : Populated(a) /\ Populated(b) /\ ~ Eq(df.data[a], df.data[b])

\* C7: every pair is measured once and every cell assigned at most once, and
\* exactly once when the loop has finished.
C7_OneMeasurementPerCell ==
    /\ \A c \in DOMAIN writes :
          /\ writes[c] <= 1
          /\ c \in Cells => (Populated(c) <=> writes[c] = 1)
          /\ LoopDone => writes[c] = 1
    /\ LET called == {k \in 1 .. Len(log) : log[k].calls > 0} IN
       Cardinality({<<log[k].func, log[k].year>> : k \in called}) = Cardinality(called)
    /\ LoopDone => Len(log) = Cardinality(TableCells)

\* a row of script II has just been assigned, the next not yet
C7_Witness ==
    /\ script = "II"
    /\ pc = "timer"
    /\ writes[<<"ternary", "2020">>] = 1
    /\ writes[<<"datetime-add", "1900">>] = 0
    /\ Len(log) = 9

\* C8: a populated cell holds the duration of the measurement that called
\* the predicate its row names on the year its column names.
C8_CellHoldsItsOwnMeasurement ==
    \A c \in Cells : Populated(c) =>
        LET v == df.data[c] IN
        /\ v.m \in 1 .. Len(log)
        /\ log[v.m].finished
        /\ log[v.m].func = PredicateNamed(c[1])
        /\ log[v.m].year = YearNamed(c[2])

\* script II has assigned the datetime row from a noisy measurement of 2019
C8_Witness ==
    /\ script = "II"
    /\ Populated(<<"datetime-add", "2019">>)
    /\ log[df.data[<<"datetime-add", "2019">>].m].noisy
    /\ log[df.data[<<"datetime-add", "2019">>].m].func = "leap_datetime"

\* C9: the pairs are measured one after the other in row-major order, a
\* measurement starting only when the one before has finished, and the
\* cells are filled in that order: the populated cells are the first cells
\* of the row-major order, each holding the measurement of its place.
C9_RowMajorSequential ==
    /\ \A k \in 1 .. Len(log) :
          /\ k < Len(log) => log[k].finished
          /\ log[k].calls > 0 =>
                /\ log[k].func = PredicateNamed(CandidateOrder[((k - 1) \div 4) + 1])
                /\ log[k].year = YearNamed(YearOrder[((k - 1) % 4) + 1])
    /\ timing => ~ log[M].finished
    /\ LET filled == {c \in Cells \cap TableCells : Populated(c)} IN
       /\ {Ord(c) : c \in filled} = 1 .. Cardinality(filled)
       /\ \A c \in filled : df.data[c].m = Ord(c)

\* script I is timing ternary on 2019, the cells before it written
C9_Witness ==
    /\ script = "I"
    /\ timing
    /\ Len(log) = 7
    /\ Populated(<<"ternary", "2000">>)
    /\ ~ Populated(<<"ternary", "2019">>)

\* C10: on every year of the range the if-statements predicate and the
\* ternary predicate return the same boolean, true exactly for the years
\* the Gregorian rule makes leap years.
C10_IfAndTernaryAreGregorian ==
    \A f \in {"leap_if_statements", "leap_ternary"} :
        pret[f] # NoCall => pret[f] = Returned(Gregorian(py))

\* both have been applied to a negative century that 400 does not divide
C10_Witness ==
    /\ py = 0 - 300
    /\ pret["leap_if_statements"] = Returned(FALSE)
    /\ pret["leap_ternary"] = Returned(FALSE)

=============================================================================
